---- MODULE Spec2Model ----
(***************************************************************************)
(* Model of the booking agent of main.ts: the three mock tools, the tool   *)
(* dispatcher executeTool and the orchestrator runBookingAgent.            *)
(*                                                                         *)
(* JavaScript values are records [t, n, s]: t is the type tag, n holds a   *)
(* number as TEN TIMES its value (so 5.5 is n = 55), s holds a string.     *)
(* JavaScript objects are sequences of <<key, value>> pairs in insertion   *)
(* order.  An argument mapping is a function from keys to values.          *)
(***************************************************************************)
EXTENDS Integers, Sequences, FiniteSets, TLC

VARIABLES pc, messages, response, responseMessage, i, requests, trace,
          output, error

vars == <<pc, messages, response, responseMessage, i, requests, trace,
          output, error>>

(* ------------------------------ bounds -------------------------------- *)
MaxCalls == 3
MaxNights == 3

(* -------------------------- JavaScript values ------------------------- *)
Str(x) == [t |-> "str", n |-> 0, s |-> x]
Num(k) == [t |-> "num", n |-> 10 * k, s |-> ""]
Dec10(k) == [t |-> "num", n |-> k, s |-> ""]
Undefined == [t |-> "undefined", n |-> 0, s |-> ""]
NaN == [t |-> "nan", n |-> 0, s |-> ""]
Null == [t |-> "null", n |-> 0, s |-> ""]

\* ToNumber of the operands of `*`; every string of the model is a
\* non-numeric label, which converts to NaN.
ToNumber(v) ==
    CASE v.t = "num" -> v
      [] v.t = "null" -> Num(0)
      [] OTHER -> NaN

\* a * b
Mul(a, b) ==
    IF ToNumber(a).t = "nan" \/ ToNumber(b).t = "nan"
    THEN NaN
    ELSE Dec10((ToNumber(a).n * ToNumber(b).n) \div 10)

\* args.key on an object: undefined when the key is absent
Get(args, key) == IF key \in DOMAIN args THEN args[key] ELSE Undefined

\* obj.key on a result object
Field(obj, key) ==
    IF \E j \in DOMAIN obj : obj[j][1] = key
    THEN obj[CHOOSE j \in DOMAIN obj : obj[j][1] = key][2]
    ELSE Undefined

(* ------------------------------ catalog ------------------------------- *)
MODEL_NAME == "nvidia/nemotron-3-nano-30b-a3b:free"
SYNTHESIS_MODEL == "openai/gpt-4o-mini"

tools ==
    << [type |-> "function", name |-> "get_flight_schedule",
        required |-> {"origin", "destination", "tripType"}],
       [type |-> "function", name |-> "get_hotel_booking",
        required |-> {"city", "nights"}],
       [type |-> "function", name |-> "convert_currency",
        required |-> {"amount", "from", "to"}] >>

(* ------------------------- tool implementations ----------------------- *)
oneWayDurationHours == Dec10(55)
oneWayCost == Num(420)
costPerNightUSD == Num(120)
rate == Num(1)

\* variant of getFlightSchedule: the round-trip cost is not doubled
getFlightScheduleCostNotDoubled(origin, destination, tripType) ==
    << <<"origin", origin>>,
       <<"destination", destination>>,
       <<"tripType", tripType>>,
       <<"totalFlightTimeHours",
         IF tripType = Str("round-trip")
         THEN Mul(oneWayDurationHours, Num(2)) ELSE oneWayDurationHours>>,
       <<"totalCostUSD", oneWayCost>> >>

getFlightSchedule(origin, destination, tripType) ==
    << <<"origin", origin>>,
       <<"destination", destination>>,
       <<"tripType", tripType>>,
       <<"totalFlightTimeHours",
         IF tripType = Str("round-trip")
         THEN Mul(oneWayDurationHours, Num(2)) ELSE oneWayDurationHours>>,
       <<"totalCostUSD",
         IF tripType = Str("round-trip")
         THEN Mul(oneWayCost, Num(2)) ELSE oneWayCost>> >>

\* variant of getHotelBooking: the total is the nightly rate
getHotelBookingRateOnly(city, nights) ==
    << <<"city", city>>,
       <<"nights", nights>>,
       <<"costPerNightUSD", costPerNightUSD>>,
       <<"totalHotelCostUSD", costPerNightUSD>> >>

getHotelBooking(city, nights) ==
    << <<"city", city>>,
       <<"nights", nights>>,
       <<"costPerNightUSD", costPerNightUSD>>,
       <<"totalHotelCostUSD", Mul(costPerNightUSD, nights)>> >>

convertCurrency(amount, from, to) ==
    << <<"from", from>>,
       <<"to", to>>,
       <<"originalAmount", amount>>,
       <<"convertedAmount", Mul(amount, rate)>> >>

(* ------------------------------ dispatcher ---------------------------- *)
\* The outcome of a call: it returned a result object, or it threw.
Returned(obj) == [outcome |-> "returned", result |-> obj]
Threw(kind) == [outcome |-> kind, result |-> <<>>]

\* args is a parsed JSON value [kind, map]: an object with its mapping, or
\* null, on which reading a property throws a TypeError.
\* variant of executeTool: the default branch returns an empty result
executeToolLenient(name, args) ==
    CASE name = "get_flight_schedule" ->
            IF args.kind = "null" THEN Threw("TypeError")
            ELSE Returned(getFlightSchedule(Get(args.map, "origin"),
                                            Get(args.map, "destination"),
                                            Get(args.map, "tripType")))
      [] name = "get_hotel_booking" ->
            IF args.kind = "null" THEN Threw("TypeError")
            ELSE Returned(getHotelBooking(Get(args.map, "city"),
                                          Get(args.map, "nights")))
      [] name = "convert_currency" ->
            IF args.kind = "null" THEN Threw("TypeError")
            ELSE Returned(convertCurrency(Get(args.map, "amount"),
                                          Get(args.map, "from"),
                                          Get(args.map, "to")))
      [] OTHER -> Returned(<<>>)

\* variant of executeTool: a missing required field throws a TypeError
executeToolValidating(name, args) ==
    LET req == UNION {tools[k].required : k \in {j \in DOMAIN tools : tools[j].name = name}}
        missing == args.kind = "null" \/ ~(req \subseteq DOMAIN args.map)
    IN  CASE name = "get_flight_schedule" ->
                IF missing THEN Threw("TypeError")
                ELSE Returned(getFlightSchedule(Get(args.map, "origin"),
                                                Get(args.map, "destination"),
                                                Get(args.map, "tripType")))
          [] name = "get_hotel_booking" ->
                IF missing THEN Threw("TypeError")
                ELSE Returned(getHotelBooking(Get(args.map, "city"),
                                              Get(args.map, "nights")))
          [] name = "convert_currency" ->
                IF missing THEN Threw("TypeError")
                ELSE Returned(convertCurrency(Get(args.map, "amount"),
                                              Get(args.map, "from"),
                                              Get(args.map, "to")))
          [] OTHER -> Threw("Unknown tool")

executeTool(name, args) ==
    CASE name = "get_flight_schedule" ->
            IF args.kind = "null" THEN Threw("TypeError")
            ELSE Returned(getFlightSchedule(Get(args.map, "origin"),
                                            Get(args.map, "destination"),
                                            Get(args.map, "tripType")))
      [] name = "get_hotel_booking" ->
            IF args.kind = "null" THEN Threw("TypeError")
            ELSE Returned(getHotelBooking(Get(args.map, "city"),
                                          Get(args.map, "nights")))
      [] name = "convert_currency" ->
            IF args.kind = "null" THEN Threw("TypeError")
            ELSE Returned(convertCurrency(Get(args.map, "amount"),
                                          Get(args.map, "from"),
                                          Get(args.map, "to")))
      [] OTHER -> Threw("Unknown tool")

(* ------------------------ JSON.parse / stringify ---------------------- *)
\* The argument payloads the model may send, as JSON text.
P_FLIGHT == "{\"origin\":\"Lagos\",\"destination\":\"Nairobi\",\"tripType\":\"round-trip\"}"
P_HOTEL == "{\"city\":\"Nairobi\",\"nights\":3}"
P_CURRENCY == "{\"amount\":1200,\"from\":\"USD\",\"to\":\"KES\"}"
P_EMPTY == "{}"
P_NULL == "null"
P_TRUNCATED == "{\"city\":\"Nairobi\","
P_BLANK == ""

WellFormedPayloads == {P_FLIGHT, P_HOTEL, P_CURRENCY, P_EMPTY, P_NULL}
MalformedPayloads == {P_TRUNCATED, P_BLANK}
Payloads == WellFormedPayloads \cup MalformedPayloads

ParsedObject(m) == [ok |-> TRUE, value |-> [kind |-> "object", map |-> m]]
ParsedNull == [ok |-> TRUE, value |-> [kind |-> "null", map |-> <<>>]]
SyntaxError == [ok |-> FALSE, value |-> [kind |-> "null", map |-> <<>>]]

\* variant of JSON.parse: text that does not parse reads as an empty object
JSONParseLenient(text) ==
    CASE text = P_FLIGHT ->
            ParsedObject([origin |-> Str("Lagos"), destination |-> Str("Nairobi"),
                          tripType |-> Str("round-trip")])
      [] text = P_HOTEL ->
            ParsedObject([city |-> Str("Nairobi"), nights |-> Num(3)])
      [] text = P_CURRENCY ->
            ParsedObject([amount |-> Num(1200), from |-> Str("USD"), to |-> Str("KES")])
      [] text = P_NULL -> ParsedNull
      [] OTHER -> ParsedObject(<<>>)

\* JSON.parse(text): the parsed value, or a SyntaxError
JSONParse(text) ==
    CASE text = P_FLIGHT ->
            ParsedObject([origin |-> Str("Lagos"), destination |-> Str("Nairobi"),
                          tripType |-> Str("round-trip")])
      [] text = P_HOTEL ->
            ParsedObject([city |-> Str("Nairobi"), nights |-> Num(3)])
      [] text = P_CURRENCY ->
            ParsedObject([amount |-> Num(1200), from |-> Str("USD"), to |-> Str("KES")])
      [] text = P_EMPTY -> ParsedObject(<<>>)
      [] text = P_NULL -> ParsedNull
      [] OTHER -> SyntaxError

\* JSON.stringify(obj): the members in insertion order, a member whose value
\* is undefined dropped, NaN written as null.
JSONStringify(obj) ==
    LET kept == SelectSeq(obj, LAMBDA p : p[2].t # "undefined")
    IN  [j \in DOMAIN kept |->
            <<kept[j][1], IF kept[j][2].t = "nan" THEN Null ELSE kept[j][2]>>]

(* --------------------------- model responses -------------------------- *)
USER_QUERY == "I'm taking a flight from Lagos to Nairobi for a conference. I would like to know the total flight time back and forth, and the total cost of logistics for this conference if I'm staying for three days."

RegisteredNames == {tools[k].name : k \in DOMAIN tools}
ToolNames == RegisteredNames \cup {"book_rental_car"}
CallIds == {"call_1", "call_2", "call_3", "call_4"}
FirstContents == {"", "Lagos to Nairobi takes about 5.5 hours each way."}
FinalContents == {"Your total conference logistics cost is $1,200."}

\* A tool call of the response: a function call carries a name and a JSON
\* argument payload; a call of another type carries no function member.
FunctionCall(id, name, arguments) ==
    [id |-> id, type |-> "function", hasFunction |-> TRUE,
     name |-> name, arguments |-> arguments]
CustomCall(id) ==
    [id |-> id, type |-> "custom", hasFunction |-> FALSE,
     name |-> "", arguments |-> ""]
\* The function calls the model is taken to request: each registered tool with
\* its own payload and with an empty object, a payload that is null, payloads
\* that do not parse, and a name outside the catalog.
CallTemplates ==
    { <<"get_flight_schedule", P_FLIGHT>>, <<"get_hotel_booking", P_HOTEL>>,
      <<"convert_currency", P_CURRENCY>>,
      <<"get_flight_schedule", P_EMPTY>>, <<"get_hotel_booking", P_EMPTY>>,
      <<"convert_currency", P_NULL>>,
      <<"get_hotel_booking", P_TRUNCATED>>, <<"book_rental_car", P_BLANK>>,
      <<"book_rental_car", P_HOTEL>> }
\* the template of a call that is not a function call
CustomTemplate == <<"", "">>
CallOf(id, tp) ==
    IF tp = CustomTemplate THEN CustomCall(id) ELSE FunctionCall(id, tp[1], tp[2])

\* The lists of at most MaxCalls calls whose identifiers are pairwise
\* distinct (the API gives every tool call of a response its own id).
DistinctIdSeqs(len) ==
    {ids \in [1..len -> CallIds] : \A a, b \in 1..len : a # b => ids[a] # ids[b]}
AllTemplates == CallTemplates \cup {CustomTemplate}
ToolCallList(ids, tps) == [k \in DOMAIN ids |-> CallOf(ids[k], tps[k])]

AssistantMessage(content, present, list) ==
    [role |-> "assistant", content |-> content,
     tool_calls |-> [present |-> present, list |-> list]]

FinalReplies == {AssistantMessage(c, FALSE, <<>>) : c \in FinalContents}

NoResponse == AssistantMessage("", FALSE, <<>>)

(* ----------------------------- orchestrator --------------------------- *)
UserMessage == [role |-> "user", content |-> USER_QUERY]

FirstRequest(msgs) ==
    [model |-> MODEL_NAME, messages |-> msgs, tools |-> tools, tool_choice |-> "auto"]

\* variant of the second request: the catalog is sent again
SecondRequestWithTools(msgs) ==
    [model |-> SYNTHESIS_MODEL, messages |-> msgs, tools |-> tools]

SecondRequest(msgs) ==
    [model |-> SYNTHESIS_MODEL, messages |-> msgs]

\* if (responseMessage.tool_calls): an array, even an empty one, is truthy
Truthy(tool_calls) == tool_calls.present

\* variant of the skip test: call.type !== 'function' || call.function
IsSkippedNegationDropped(call) == call.type # "function" \/ call.hasFunction

\* call.type !== 'function' || !call.function
IsSkipped(call) == call.type # "function" \/ ~call.hasFunction

\* variant of the tool message: tool_call_id taken from call.function.name
ToolMessageNameAsId(call, result) ==
    [role |-> "tool", tool_call_id |-> call.name, content |-> JSONStringify(result)]

ToolMessage(call, result) ==
    [role |-> "tool", tool_call_id |-> call.id, content |-> JSONStringify(result)]

\* variant of the loop: the calls are visited last to first
CallAtReversed(list, k) == list[Len(list) + 1 - k]

\* the k-th call visited by `for (const call of responseMessage.tool_calls)`
CallAt(list, k) == list[k]

Init ==
    /\ pc = "start"
    /\ messages = <<UserMessage>>
    /\ response = NoResponse
    /\ responseMessage = NoResponse
    /\ i = 1
    /\ requests = <<>>
    /\ trace = <<>>
    /\ output = ""
    /\ error = "none"

\* openai.chat.completions.create({model, messages, tools, tool_choice})
SendFirst ==
    /\ pc = "start"
    /\ requests' = Append(requests, FirstRequest(messages))
    /\ pc' = "await1"
    /\ UNCHANGED <<messages, response, responseMessage, i, trace, output, error>>

\* the first call rejects: the error leaves runBookingAgent
FirstCallFails ==
    /\ pc = "await1"
    /\ pc' = "failed"
    /\ error' = "APIError"
    /\ UNCHANGED <<messages, response, responseMessage, i, requests, trace, output>>

\* The first reply arrives: it is appended, and the branch is taken.
Receive(reply) ==
    /\ response' = reply
    /\ responseMessage' = reply
    /\ messages' = Append(messages, reply)
    /\ IF Truthy(reply.tool_calls)
       THEN /\ pc' = "tools"
            /\ output' = output
       ELSE /\ pc' = "done"
            /\ output' = reply.content
    /\ i' = 1
    /\ UNCHANGED <<requests, trace, error>>

\* The replies the selection model may give: tool_calls absent or an empty
\* list, with any content, or a list of at most MaxCalls calls (a reply that
\* requests tools comes with empty content).
ReceiveFirst ==
    /\ pc = "await1"
    /\ \/ \E c \in FirstContents, present \in BOOLEAN :
            Receive(AssistantMessage(c, present, <<>>))
       \/ \E len \in 1..MaxCalls :
            \E ids \in DistinctIdSeqs(len), tps \in [1..len -> AllTemplates] :
                Receive(AssistantMessage("", TRUE, ToolCallList(ids, tps)))

\* One iteration of the loop over responseMessage.tool_calls.
LoopStep ==
    /\ pc = "tools"
    /\ i <= Len(responseMessage.tool_calls.list)
    /\ LET call == CallAt(responseMessage.tool_calls.list, i)
           parsed == JSONParse(call.arguments)
           out == executeTool(call.name, parsed.value)
       IN  IF IsSkipped(call)
           THEN /\ i' = i + 1
                /\ UNCHANGED <<pc, messages, trace, error>>
           ELSE IF ~parsed.ok
           THEN /\ pc' = "failed"
                /\ error' = "SyntaxError"
                /\ UNCHANGED <<i, messages, trace>>
           ELSE /\ trace' = Append(trace, [id |-> call.id, name |-> call.name,
                                           args |-> parsed.value,
                                           outcome |-> out.outcome,
                                           result |-> out.result])
                /\ IF out.outcome = "returned"
                   THEN /\ messages' = Append(messages, ToolMessage(call, out.result))
                        /\ i' = i + 1
                        /\ UNCHANGED <<pc, error>>
                   ELSE /\ pc' = "failed"
                        /\ error' = out.outcome
                        /\ UNCHANGED <<i, messages>>
    /\ UNCHANGED <<response, responseMessage, requests, output>>

\* After the loop: openai.chat.completions.create({model, messages})
SendSecond ==
    /\ pc = "tools"
    /\ i > Len(responseMessage.tool_calls.list)
    /\ requests' = Append(requests, SecondRequest(messages))
    /\ pc' = "await2"
    /\ UNCHANGED <<messages, response, responseMessage, i, trace, output, error>>

SecondCallFails ==
    /\ pc = "await2"
    /\ pc' = "failed"
    /\ error' = "APIError"
    /\ UNCHANGED <<messages, response, responseMessage, i, requests, trace, output>>

\* The second reply arrives and its content is the final answer.
ReceiveSecond ==
    /\ pc = "await2"
    /\ \E reply \in FinalReplies :
        /\ response' = reply
        /\ output' = reply.content
    /\ pc' = "done"
    /\ UNCHANGED <<messages, responseMessage, i, requests, trace, error>>

Next ==
    \/ SendFirst
    \/ FirstCallFails
    \/ ReceiveFirst
    \/ LoopStep
    \/ SendSecond
    \/ SecondCallFails
    \/ ReceiveSecond

Spec == Init /\ [][Next]_vars

(* ------------------- the dispatcher called on its own ----------------- *)
Cities == {Str("Lagos"), Str("Nairobi")}
TripTypes == {Str("round-trip"), Str("one-way"), Str("roundtrip"), Str("Round-Trip")}
NightCounts == {Num(n) : n \in 0..MaxNights}
Amounts == {Num(0), Num(840), Num(1200)}
Currencies == {Str("USD"), Str("KES")}

\* The mappings over a subset of keys, each present key drawing its value
\* from vals[key].
MapsOver(keys, vals) ==
    UNION {{f \in [S -> UNION {vals[k] : k \in keys}] : \A k \in S : f[k] \in vals[k]}
           : S \in SUBSET keys}

ArgumentMaps ==
    MapsOver({"origin", "destination", "tripType"},
             [origin |-> Cities, destination |-> Cities, tripType |-> TripTypes])
    \cup MapsOver({"city", "nights"}, [city |-> Cities, nights |-> NightCounts])
    \cup MapsOver({"amount", "from", "to"},
                  [amount |-> Amounts, from |-> Currencies, to |-> Currencies])

ArgumentValues ==
    {[kind |-> "object", map |-> m] : m \in ArgumentMaps}
    \cup {[kind |-> "null", map |-> <<>>]}

InitTools ==
    /\ pc = "direct"
    /\ messages = <<UserMessage>>
    /\ response = NoResponse
    /\ responseMessage = NoResponse
    /\ i = 1
    /\ requests = <<>>
    /\ trace = <<>>
    /\ output = ""
    /\ error = "none"

\* executeTool(name, args), called once with any name and argument value
CallTool ==
    /\ pc = "direct"
    /\ trace = <<>>
    /\ \E name \in ToolNames, args \in ArgumentValues :
        LET out == executeTool(name, args)
        IN  /\ trace' = <<[id |-> "direct", name |-> name, args |-> args,
                           outcome |-> out.outcome, result |-> out.result]>>
            /\ error' = IF out.outcome = "returned" THEN "none" ELSE out.outcome
    /\ UNCHANGED <<pc, messages, response, responseMessage, i, requests, output>>

NextTools == CallTool

SpecTools == InitTools /\ [][NextTools]_vars

(* ------------------------------ properties ---------------------------- *)
Calls == responseMessage.tool_calls.list
IsToolMessage(m) == m.role = "tool"
IsFunctionCall(call) == call.type = "function" /\ call.hasFunction
PosOfId(id) == CHOOSE k \in DOMAIN Calls : Calls[k].id = id
ToolMessagesOf(msgs) == {m \in DOMAIN msgs : IsToolMessage(msgs[m])}

\* msgs holds a tool-result message with the call's identifier whose content
\* is the serialized result the dispatcher returned for that call
HasResultFor(msgs, call) ==
    \E m \in ToolMessagesOf(msgs) :
        /\ msgs[m].tool_call_id = call.id
        /\ \E t \in DOMAIN trace :
              /\ trace[t].id = call.id
              /\ trace[t].name = call.name
              /\ trace[t].outcome = "returned"
              /\ msgs[m].content = JSONStringify(trace[t].result)

\* C1 (as stated): once the first reply has been appended, if it holds no
\* tool call (tool_calls absent, or present and empty) then no tool is
\* executed, only one model call is ever issued, and a finished run outputs
\* the content of the first reply.
C1_NoRequestsNoSecondCall ==
    (Len(messages) >= 2 /\ Calls = <<>>) =>
        /\ trace = <<>>
        /\ Len(requests) = 1
        /\ (pc = "done" => output = responseMessage.content)

\* C2 (as stated): when the second model call is issued, its conversation
\* holds, for every tool call of the first reply, a tool-result message with
\* that call's identifier and the serialized result of dispatching it.
C2_EveryRequestHasResult ==
    Len(requests) = 2 =>
        \A k \in DOMAIN Calls : HasResultFor(requests[2].messages, Calls[k])

\* C2 (amended): when the second model call is issued, its conversation
\* holds, for every tool call of type "function" that carries a function
\* member, a tool-result message with that call's identifier and the
\* serialized result of dispatching it; calls of another type are skipped.
C2_EveryFunctionRequestHasResult ==
    Len(requests) = 2 =>
        \A k \in DOMAIN Calls :
            IF IsFunctionCall(Calls[k])
            THEN HasResultFor(requests[2].messages, Calls[k])
            ELSE \A m \in ToolMessagesOf(requests[2].messages) :
                    requests[2].messages[m].tool_call_id # Calls[k].id

C2_Witness ==
    /\ Len(requests) = 2
    /\ \E k \in DOMAIN Calls : ~IsFunctionCall(Calls[k])
    /\ \E m \in ToolMessagesOf(requests[2].messages) :
          requests[2].messages[m].content =
              << <<"city", Str("Nairobi")>>, <<"nights", Num(3)>>,
                 <<"costPerNightUSD", Num(120)>>, <<"totalHotelCostUSD", Num(360)>> >>

C4_ResultsInRequestOrder ==
    /\ \A p, q \in ToolMessagesOf(messages) :
          p < q => PosOfId(messages[p].tool_call_id) < PosOfId(messages[q].tool_call_id)
    /\ \A a, b \in DOMAIN trace :
          a < b => PosOfId(trace[a].id) < PosOfId(trace[b].id)
    /\ \A a \in DOMAIN trace : PosOfId(trace[a].id) <= i

C4_Witness ==
    /\ Cardinality(ToolMessagesOf(messages)) >= 2
    /\ Len(trace) >= 2
    /\ Calls[1].id = "call_3"

\* C5: a dispatch of a name outside the three registered tools signals
\* "Unknown tool" and returns no result; the run is then terminated with
\* that error, it is the last dispatch, no tool-result message exists for
\* that call or for a later call, and only one model call was issued.
C5_UnknownToolAbortsRun ==
    \A t \in DOMAIN trace :
        trace[t].name \notin {"get_flight_schedule", "get_hotel_booking", "convert_currency"} =>
            /\ trace[t].outcome = "Unknown tool"
            /\ trace[t].result = <<>>
            /\ pc = "failed"
            /\ error = "Unknown tool"
            /\ t = Len(trace)
            /\ Len(requests) = 1
            /\ \A m \in ToolMessagesOf(messages) :
                  PosOfId(messages[m].tool_call_id) < PosOfId(trace[t].id)

C5_Witness ==
    /\ pc = "failed"
    /\ error = "Unknown tool"
    /\ Len(trace) = 2
    /\ Cardinality(ToolMessagesOf(messages)) = 1
    /\ Len(Calls) > PosOfId(trace[2].id)

\* C6: a function call whose argument payload does not parse stops the run:
\* the loop never moves past it, the dispatcher is never invoked for it, no
\* tool-result message exists for it or for a later call, the second model
\* call is never issued, and when the loop has stopped on it the error is
\* the parse error.
C6_MalformedPayloadAbortsRun ==
    \A k \in DOMAIN Calls :
        (IsFunctionCall(Calls[k]) /\ Calls[k].arguments \in MalformedPayloads) =>
            /\ i <= k
            /\ pc \in {"tools", "failed"}
            /\ (pc = "failed" /\ i = k => error = "SyntaxError")
            /\ Len(requests) = 1
            /\ \A t \in DOMAIN trace : trace[t].id # Calls[k].id
            /\ \A m \in ToolMessagesOf(messages) :
                  PosOfId(messages[m].tool_call_id) < k

C6_Witness ==
    /\ pc = "failed"
    /\ error = "SyntaxError"
    /\ i = 2
    /\ Len(Calls) >= 3
    /\ Cardinality(ToolMessagesOf(messages)) = 1

\* the required fields of a registered tool, from the catalog
Required(name) == UNION {tools[k].required : k \in {j \in DOMAIN tools : tools[j].name = name}}
LacksRequiredField(e) ==
    /\ e.name \in RegisteredNames
    /\ e.args.kind = "object"
    /\ ~(Required(e.name) \subseteq DOMAIN e.args.map)
\* the member of the result that echoes an argument
EchoKey(key) == IF key = "amount" THEN "originalAmount" ELSE key

\* C7 (as stated): a dispatch of a registered tool with an argument mapping
\* that lacks a required field fails with a runtime type error and returns
\* no result.
C7_MissingFieldRaisesTypeError ==
    \A t \in DOMAIN trace :
        LacksRequiredField(trace[t]) =>
            trace[t].outcome = "TypeError" /\ trace[t].result = <<>>

\* C7 (amended): a dispatch of a registered tool with an argument mapping
\* that lacks a required field raises no error at all: it returns a result
\* whose member for the missing field is undefined, a missing tripType gives
\* the one-way constants, and a product over a missing number is NaN.
C7_MissingFieldReturnsResult ==
    \A t \in DOMAIN trace :
        LacksRequiredField(trace[t]) =>
            /\ trace[t].outcome = "returned"
            /\ \A key \in Required(trace[t].name) \ DOMAIN trace[t].args.map :
                  /\ Field(trace[t].result, EchoKey(key)) = Undefined
                  /\ key = "nights" => Field(trace[t].result, "totalHotelCostUSD") = NaN
                  /\ key = "amount" => Field(trace[t].result, "convertedAmount") = NaN
                  /\ key = "tripType" =>
                        /\ Field(trace[t].result, "totalFlightTimeHours") = Dec10(55)
                        /\ Field(trace[t].result, "totalCostUSD") = Num(420)

C7_Witness ==
    /\ Len(trace) = 1
    /\ trace[1].name = "get_hotel_booking"
    /\ trace[1].args.kind = "object"
    /\ DOMAIN trace[1].args.map = {"city"}
    /\ trace[1].outcome = "returned"

\* C8: the flight lookup returns 11.0 hours and 840 USD when tripType is
\* exactly "round-trip", and 5.5 hours and 420 USD for every other tripType
\* (another string or absent), whatever origin and destination are.
C8_FlightConstants ==
    \A t \in DOMAIN trace :
        (trace[t].name = "get_flight_schedule" /\ trace[t].args.kind = "object") =>
            /\ trace[t].outcome = "returned"
            /\ IF Get(trace[t].args.map, "tripType") = Str("round-trip")
               THEN /\ Field(trace[t].result, "totalFlightTimeHours") = Dec10(110)
                    /\ Field(trace[t].result, "totalCostUSD") = Num(840)
               ELSE /\ Field(trace[t].result, "totalFlightTimeHours") = Dec10(55)
                    /\ Field(trace[t].result, "totalCostUSD") = Num(420)

C8_Witness ==
    /\ Len(trace) = 1
    /\ trace[1].name = "get_flight_schedule"
    /\ trace[1].args.kind = "object"
    /\ Get(trace[1].args.map, "tripType") = Str("round-trip")
    /\ Get(trace[1].args.map, "origin") = Str("Nairobi")
    /\ trace[1].outcome = "returned"

\* C9: for a whole number of nights n >= 0 and any city (or none), the
\* dispatch of get_hotel_booking returns the result of getHotelBooking, with
\* costPerNightUSD 120 and totalHotelCostUSD 120 * n.
C9_HotelTotal ==
    \A t \in DOMAIN trace :
        (/\ trace[t].name = "get_hotel_booking"
         /\ trace[t].args.kind = "object"
         /\ Get(trace[t].args.map, "nights") \in NightCounts) =>
            LET n == Get(trace[t].args.map, "nights").n \div 10
            IN  /\ trace[t].outcome = "returned"
                /\ trace[t].result = getHotelBooking(Get(trace[t].args.map, "city"),
                                                     Get(trace[t].args.map, "nights"))
                /\ Field(trace[t].result, "costPerNightUSD") = Num(120)
                /\ Field(trace[t].result, "totalHotelCostUSD") = Num(120 * n)

C9_Witness ==
    /\ Len(trace) = 1
    /\ trace[1].name = "get_hotel_booking"
    /\ trace[1].args.kind = "object"
    /\ Get(trace[1].args.map, "nights") = Num(3)
    /\ Field(trace[1].result, "totalHotelCostUSD") = Num(360)

\* the state part of C10: the shape of the two requests and of the conversation
C10_State ==
    /\ Len(requests) <= 2
    /\ Len(requests) >= 1 =>
          requests[1] = [model |-> "nvidia/nemotron-3-nano-30b-a3b:free",
                         messages |-> <<UserMessage>>,
                         tools |-> tools, tool_choice |-> "auto"]
    /\ Len(requests) = 2 =>
          /\ pc \in {"await2", "done", "failed"}
          /\ DOMAIN requests[2] = {"model", "messages"}
          /\ requests[2].model = "openai/gpt-4o-mini"
          /\ requests[2].messages = messages
          /\ Len(messages) >= 2
          /\ messages[1] = UserMessage
          /\ messages[2] = responseMessage
          /\ \A m \in 3..Len(messages) : IsToolMessage(messages[m])
          /\ i = Len(Calls) + 1
          /\ (pc = "done" => response \in FinalReplies /\ output = response.content)
          /\ (pc = "failed" => error = "APIError")

\* C10: at most two model calls are issued, one after the other: the first
\* carries the one-message conversation, the catalog and tool choice "auto";
\* the second is issued only after the first reply was appended and every
\* call was processed, carries the whole conversation (user message, reply,
\* tool results) without the catalog, and its reply is the final answer;
\* once it is issued no tool runs and the conversation no longer changes.
C10_TwoSequentialModelCalls ==
    /\ []C10_State
    /\ [][Len(requests) = 2 => (trace' = trace /\ messages' = messages /\ requests' = requests)]_vars

C10_Witness ==
    /\ pc = "done"
    /\ Len(requests) = 2
    /\ Len(messages) >= 4
    /\ \E k \in DOMAIN Calls : ~IsFunctionCall(Calls[k])
    /\ output \in FinalContents
====
